---- MODULE Spec2Model ----
(***************************************************************************)
(* Model of the mailbox-synchronisation core of forwardemail.net:          *)
(*   - IMAPNotifier (src/helpers/imap-notifier.js): addEntries, fire, the  *)
(*     broadcast message handler and its debounce scheduler;               *)
(*   - getMessages / onFetch (src/config/caldav.js): the FETCH row loop;   *)
(*   - CalDAV.createEvent, updateEvent, deleteEvent (src/config/caldav.js).*)
(* Every await of the JavaScript code is a suspension point: one action    *)
(* of the model is one store access (or timer / message callback) together *)
(* with the synchronous code that follows it up to the next await.         *)
(***************************************************************************)
EXTENDS Integers, Sequences, FiniteSets, TLC

\* ------------------------------------------------------------------ bounds
\* concurrent addEntries callers (each makes one call)
NumProcs == 2
\* messages of the mailbox
NumMessages == 2
\* entries handed to one addEntries call
MaxEntries == 2
\* the mailbox's modifyIndex in the initial state is 0..MaxInitIndex
MaxInitIndex == 1

Procs == 1..NumProcs
Msgs == 1..NumMessages

\* ------------------------------------------------------------- variables
VARIABLES
    modifyIndex,    \* Mailbox.modifyIndex of the one existing mailbox
    initialIndex,   \* modifyIndex in the initial state (never changes)
    msgModseq,      \* Message.modseq, by message id
    journal,        \* the Journals collection, in order of creation
    calls,          \* per caller: the locals of its addEntries call
    now,            \* Date.now(), in ms
    horizon,        \* the time up to which the clock is followed
    publishTimers,  \* this.publishTimers: per account key, its record
    armed,          \* the timeouts set and not cleared: [ev, due]
    listeners,      \* this._listeners: registrations per key and handler
    immediates,     \* setImmediate callbacks of fire() not yet run
    channel,        \* messages published and not yet received here
    sent,           \* messages handed to the channel so far
    quota,          \* the messages that may be handed to the channel
    fires,          \* fire() calls so far, and those published, in order
    hist,           \* per key: pulses and emissions so far, and when
    lastEvent,      \* what the last step received and whom it called
    store,          \* the mailbox's Messages rows, by uid
    uidList,        \* session.selected.uidList
    socketOpen,     \* session.socket is there, open and not destroyed
    closing,        \* server._closeTimeout is set
    fetch,          \* the locals of onFetch / getMessages
    written,        \* session.writeStream: the uid of each response
    session,        \* data.session: has it a user.alias_id, and its db
    connections,    \* the Redis counters connections_<env>:<id>
    pipelines,      \* pipelines handed to Redis and not yet executed
    release,        \* what the releaseConnection calls have done so far
    calendar,       \* the calendar: its synctoken, its events by eventId
    requests        \* per CalDAV request: the locals of its handler

addVars == <<modifyIndex, initialIndex, msgModseq, journal, calls>>

notifierVars == <<now, horizon, publishTimers, armed, listeners, immediates,
                  channel, sent, quota, fires, hist, lastEvent>>

fetchVars == <<store, uidList, socketOpen, closing, fetch, written>>

releaseVars == <<session, connections, pipelines, release>>

caldavVars == <<calendar, requests>>

vars == <<addVars, notifierVars, fetchVars, releaseVars, caldavVars>>

\* what the addEntries steps leave alone
outsideAdd == <<notifierVars, fetchVars, releaseVars, caldavVars>>

\* what the notifier's steps leave alone
outsideNotifier == <<addVars, fetchVars, releaseVars, caldavVars>>

\* what the FETCH steps leave alone
outsideFetch == <<addVars, notifierVars, releaseVars, caldavVars>>

\* what the releaseConnection steps leave alone
outsideRelease == <<addVars, notifierVars, fetchVars, caldavVars>>

\* what the CalDAV steps leave alone
outsideCalDAV == <<addVars, notifierVars, fetchVars, releaseVars>>

\* ------------------------------------------------ the notifier at rest
\* registrations of handlers in all, and messages published
MaxRegistrations == 2
MaxMessages == 1


\* account keys (session.user.alias_id) and listener functions
Keys == {"a", "b"}
Handlers == {"h1", "h2"}

\* no time yet
Never == 0 - 1

NoRecord == [has |-> FALSE, count |-> 0, initial |-> 0, timeout |-> 0]

\* What is remembered of a key's pulses: whether an emission is owed to a
\* pulse, when the last pulse came, and of the first burst (pulses that each
\* came within one clock step of the one before; tight while it lasts): when
\* it began, how many emissions it has had (2: two or more) and when the
\* first was.
NoCalls == [h \in Handlers |-> 0]

\* Also: addListener less removeListener calls per handler so far, and, in
\* the runs that watch for them (`watch`), the handlers removed (`left`) and
\* added (`joined`) since the key's latest record was made, while that
\* record was pending.
NoHist ==
    [owed |-> FALSE, lastPulseAt |-> Never, tight |-> TRUE,
     firstPulseAt |-> Never, emits |-> 0, firstEmitAt |-> Never,
     registered |-> NoCalls, watch |-> FALSE, left |-> {}, joined |-> {}]

\* What a step did: the message it received (who published it, its e,
\* whether it has a p, its p), whether the scheduler was called, whether an
\* event was emitted, and the calls of each key's handlers with the argument
\* they were given.
NoEvent ==
    [kind |-> "none", origin |-> "none", ev |-> "", hasP |-> FALSE,
     payload |-> "undefined", scheduled |-> FALSE, emitted |-> FALSE,
     called |-> [k \in Keys |-> NoCalls], argument |-> "undefined"]

\* Lines 47-51: the state a new IMAPNotifier has, at time 0.
NotifierInit(h, q) ==
    /\ now = 0
    /\ horizon = h
    /\ quota = q
    /\ fires = [calls |-> 0, published |-> <<>>]
    /\ publishTimers = [k \in Keys |-> NoRecord]
    /\ armed = {}
    /\ listeners = [k \in Keys |-> NoCalls]
    /\ immediates = <<>>
    /\ channel = <<>>
    /\ sent = 0
    /\ hist = [k \in Keys |-> NoHist]
    /\ lastEvent = NoEvent

\* --------------------------------------------------- the FETCH at rest
\* uids the mailbox may hand out
MaxUid == 3
Uids == 1..MaxUid

NoOptions ==
    [messages |-> <<>>, markAsSeen |-> FALSE, metadataOnly |-> FALSE,
     flagsExist |-> FALSE, changedSince |-> 0]

\* Lines 1368-1381: the accumulators onFetch starts getMessages with, and
\* the locals of getMessages (lastUid 0: null). Then what the command has
\* done so far: the queries run, the rows met, how the last row loop ended,
\* whether the mailbox gained or lost a message since the first query, the
\* updates queued, the bulkWrite calls made, the messages answered with
\* \Seen added, the entries passed to addEntries, the calls of fire, and
\* what fn was called with.
IdleFetch ==
    [pc |-> "idle", options |-> NoOptions, queryAll |-> FALSE,
     rows |-> <<>>, idx |-> 0, count |-> 0, lastUid |-> 0,
     bulkWrite |-> <<>>, entries |-> <<>>, successful |-> TRUE,
     rowCount |-> 0, totalBytes |-> 0,
     passes |-> 0, reached |-> {}, ended |-> "none", disturbed |-> FALSE,
     queued |-> <<>>, batches |-> <<>>, marked |-> {},
     passed |-> <<>>, fired |-> 0,
     mailbox |-> TRUE, response |-> "none", error |-> "none"]

\* No message, no session, no FETCH.
FetchAtRest ==
    /\ store = [u \in Uids |-> "none"]
    /\ uidList = <<>>
    /\ socketOpen = TRUE
    /\ closing = FALSE
    /\ fetch = IdleFetch
    /\ written = <<>>

\* ---------------------------------------------- the connection at rest
\* A session with no user, no store handle and nothing released.
NoRelease ==
    [calls |-> 0, reports |-> 0, raised |-> FALSE, logged |-> 0,
     optimized |-> 0, executed |-> 0, failed |-> "none",
     initial |-> [db |-> "none", alias |-> 0, domain |-> 0]]

ReleaseAtRest ==
    /\ session = [auth |-> FALSE, db |-> "none"]
    /\ connections = [alias |-> 0, domain |-> 0]
    /\ pipelines = 0
    /\ release = NoRelease

\* ------------------------------------------------- addEntries: its inputs
\* A falsy entry.modseq (undefined or 0) is 0; a missing entry.message is 0.
\* the largest modseq a caller supplies with an entry
MaxSuppliedModseq == 1

Entry == [modseq : 0..MaxSuppliedModseq, message : 0..NumMessages]

EntryLists == UNION { [1..n -> Entry] : n \in 0..MaxEntries }

\* The `entries` argument: an array, or (isArray = FALSE) a single entry
\* object (one item) or null / undefined (no item).
EntriesArgs ==
    { [isArray |-> a, items |-> l] : a \in BOOLEAN, l \in EntryLists }

\* The `mailboxId` argument: falsy ("none"), the id of the mailbox ("id"),
\* an id no mailbox has ("unknown"), or a mailbox document loaded earlier,
\* carrying the modifyIndex it had then ("object").
MailboxRef(kind, idx) == [kind |-> kind, modifyIndex |-> idx]

NullMailbox == [found |-> FALSE, modifyIndex |-> 0]

\* what a call was made with: the collaborators present, the kind of the
\* mailbox reference, the number of entries
NoArgs == [db |-> FALSE, wsp |-> FALSE, pw |-> FALSE, ref |-> "none", count |-> 0]

IdleCall ==
    [pc |-> "idle", args |-> NoArgs,
     given |-> <<>>, entries |-> <<>>, updated |-> <<>>,
     query |-> "none", mailbox |-> NullMailbox, modseq |-> 0,
     messages |-> <<>>, idx |-> 0, result |-> 0, error |-> "none",
     logged |-> FALSE]

Active(c) == c.pc \notin {"idle", "returned", "threw"}

\* ------------------------------------------------- the calendar at rest
\* eventIds of the requests
NumEvents == 2
EventIds == 1..NumEvents

\* `${config.urls.web}/ns/sync-token/1`: what stands before the last "/",
\* and the number after it
SyncToken(prefix, suffix) == [prefix |-> prefix, suffix |-> suffix]

NoRequest ==
    [pc |-> "idle", op |-> "none", eventId |-> 0,
     synctoken |-> SyncToken("", 0), error |-> "none", mutated |-> FALSE]

\* A new calendar (lines 346-373), no event, no request.
CalDAVAtRest ==
    /\ calendar = [synctoken |-> SyncToken("ns/sync-token", 1),
                   initial |-> 1,
                   events |-> [e \in EventIds |-> 0],
                   unique |-> FALSE]
    /\ requests = [p \in Procs |-> NoRequest]

\* ------------------------------------------------ addEntries: pure parts
\* entries.filter((entry) => !entry.modseq && entry.message).map(... message)
Updated(entries) ==
    LET sel == SelectSeq(entries, LAMBDA e : e.modseq = 0 /\ e.message # 0)
    IN  [i \in 1..Len(sel) |-> sel[i].message]

\* entry.modseq = entry.modseq || modseq
StampModseq(entryModseq, modseq) ==
    IF entryModseq # 0 THEN entryModseq ELSE modseq

Stamp(entries, modseq) ==
    [i \in 1..Len(entries) |->
        [entries[i] EXCEPT !.modseq = StampModseq(@, modseq)]]

\* the comparison turned round
MutIsBehind(messageModseq, modseq) == messageModseq > modseq

\* if (message.modseq < modseq)
IsBehind(messageModseq, modseq) == messageModseq < modseq

\* The next row at or after `from` that the loop updates (Len + 1: none).
RECURSIVE NextBehind(_, _, _)
NextBehind(messages, from, modseq) ==
    IF from > Len(messages) THEN from
    ELSE IF IsBehind(messages[from].modseq, modseq) THEN from
    ELSE NextBehind(messages, from + 1, modseq)

\* ------------------------------------------- the stores addEntries uses
\* an update that increments nothing
MutIncModifyIndex(idx) == idx

\* { $inc: { modifyIndex: 1 } }
IncModifyIndex(idx) == idx + 1

\* Mailboxes.findOneAndUpdate(query, $inc, { returnDocument: 'after' }):
\* one atomic step of the store; the document it returns.
FindOneAndUpdateResult(query) ==
    IF query = "M"
    THEN [found |-> TRUE, modifyIndex |-> IncModifyIndex(modifyIndex)]
    ELSE NullMailbox

\* Mailboxes.findOne(query)
FindOneResult(query) ==
    IF query = "M" THEN [found |-> TRUE, modifyIndex |-> modifyIndex]
    ELSE NullMailbox

\* Messages.find({ _id: { $in: updated }, mailbox }): the rows, by id.
RECURSIVE RowsFrom(_, _)
RowsFrom(ids, m) ==
    IF m > NumMessages THEN <<>>
    ELSE (IF m \in ids THEN <<[id |-> m, modseq |-> msgModseq[m]]>> ELSE <<>>)
         \o RowsFrom(ids, m + 1)

MessagesFind(updated) ==
    RowsFrom({updated[i] : i \in 1..Len(updated)}, 1)

\* --------------------------------------------------- addEntries: actions
\* a call that goes on with no mailbox
MutWithMailbox(c, mailbox) ==
    [c EXCEPT !.mailbox = mailbox,
              !.modseq = mailbox.modifyIndex,
              !.entries = Stamp(c.entries, mailbox.modifyIndex),
              !.pc = IF Len(c.updated) > 0 THEN "find" ELSE "create"]

\* Lines 192-218: the mailbox is known (or is not); stamp the entries and
\* go on to the corrective updates or straight to the journal.
WithMailbox(c, mailbox) ==
    IF ~mailbox.found
    THEN [c EXCEPT !.pc = "threw", !.error = "NoSuchMailbox",
                   !.mailbox = mailbox]
    ELSE [c EXCEPT !.mailbox = mailbox,
                   !.modseq = mailbox.modifyIndex,
                   !.entries = Stamp(c.entries, mailbox.modifyIndex),
                   !.pc = IF Len(c.updated) > 0 THEN "find" ELSE "create"]

\* a call that goes on with no entry
MutNoEntries(arg) == FALSE

\* Lines 141-145: a single object is wrapped; null, undefined or an empty
\* array make the call return false.
NoEntries(arg) == Len(arg.items) = 0

\* Lines 118-171: the checks of the arguments, up to the first store access.
Validate(c, db, wsp, pw, arg, ref) ==
    IF ~db THEN [c EXCEPT !.pc = "threw", !.error = "DatabaseMissing"]
    ELSE IF ~wsp THEN [c EXCEPT !.pc = "threw", !.error = "WSPMissing"]
    ELSE IF ~pw THEN [c EXCEPT !.pc = "threw", !.error = "PasswordMissing"]
    ELSE IF NoEntries(arg) THEN [c EXCEPT !.pc = "returned", !.result = 0]
    ELSE LET c1 == [c EXCEPT !.given = arg.items, !.entries = arg.items,
                             !.updated = Updated(arg.items)]
         IN  IF ref.kind = "none"
             THEN [c1 EXCEPT !.pc = "threw", !.error = "NoSuchMailbox"]
             ELSE LET c2 == [c1 EXCEPT
                        !.query = IF ref.kind = "unknown" THEN "unknown" ELSE "M",
                        !.mailbox = IF ref.kind = "object"
                                    THEN [found |-> TRUE,
                                          modifyIndex |-> ref.modifyIndex]
                                    ELSE NullMailbox]
                  IN  IF Len(c2.updated) > 0 THEN [c2 EXCEPT !.pc = "inc"]
                      ELSE IF ~c2.mailbox.found THEN [c2 EXCEPT !.pc = "findOne"]
                      ELSE WithMailbox(c2, c2.mailbox)

Start(p, arg, ref, db, wsp, pw) ==
    /\ calls[p].pc = "idle"
    /\ LET called == [IdleCall EXCEPT !.args =
                          [db |-> db, wsp |-> wsp, pw |-> pw,
                           ref |-> ref.kind, count |-> Len(arg.items)]]
       IN  calls' = [calls EXCEPT ![p] = Validate(called, db, wsp, pw, arg, ref)]
    /\ UNCHANGED <<modifyIndex, initialIndex, msgModseq, journal, outsideAdd>>

\* Lines 173-188: await Mailboxes.findOneAndUpdate(... $inc modifyIndex ...)
MintModseq(p) ==
    /\ calls[p].pc = "inc"
    /\ LET doc == FindOneAndUpdateResult(calls[p].query)
           c1 == IF doc.found THEN WithMailbox(calls[p], doc)
                 ELSE [calls[p] EXCEPT !.mailbox = doc, !.pc = "findOne"]
       IN  /\ modifyIndex' = IF doc.found THEN doc.modifyIndex ELSE modifyIndex
           /\ calls' = [calls EXCEPT ![p] = c1]
    /\ UNCHANGED <<initialIndex, msgModseq, journal, outsideAdd>>

\* Line 190: if (!mailbox) mailbox = await Mailboxes.findOne(...)
FindMailbox(p) ==
    /\ calls[p].pc = "findOne"
    /\ LET c1 == WithMailbox(calls[p], FindOneResult(calls[p].query))
       IN  /\ calls' = [calls EXCEPT ![p] = c1]
    /\ UNCHANGED <<modifyIndex, initialIndex, msgModseq, journal, outsideAdd>>

\* After a row: the loop runs on to the next row it updates, or ends (the
\* rows are then no longer used).
Advance(c, from) ==
    LET i == NextBehind(c.messages, from, c.modseq)
    IN  IF i > Len(c.messages)
        THEN [c EXCEPT !.idx = 0, !.messages = <<>>, !.pc = "create"]
        ELSE [c EXCEPT !.idx = i, !.pc = "update"]

\* Lines 245-261: await Messages.find(...), then the loop to its first update
FindMessages(p) ==
    /\ calls[p].pc = "find"
    /\ calls' = [calls EXCEPT ![p] =
          Advance([calls[p] EXCEPT !.messages = MessagesFind(calls[p].updated)], 1)]
    /\ UNCHANGED <<modifyIndex, initialIndex, msgModseq, journal, outsideAdd>>

\* Lines 263-273: await Messages.findByIdAndUpdate(id, { $set: { modseq } })
UpdateMessage(p) ==
    /\ calls[p].pc = "update"
    /\ LET c == calls[p]
       IN  /\ msgModseq' = [msgModseq EXCEPT ![c.messages[c.idx].id] = c.modseq]
           /\ calls' = [calls EXCEPT ![p] = Advance(c, c.idx + 1)]
    /\ UNCHANGED <<modifyIndex, initialIndex, journal, outsideAdd>>

\* a catch that throws the error on to the caller
MutCaught(c) ==
    [c EXCEPT !.pc = "threw", !.error = "StoreError", !.logged = TRUE,
              !.idx = 0, !.messages = <<>>]

\* Lines 275-277: the catch logs the error; the call goes on to line 280.
Caught(c) ==
    [c EXCEPT !.pc = "create", !.logged = TRUE, !.idx = 0, !.messages = <<>>]

\* Lines 245-277: Messages.find or findByIdAndUpdate rejects inside the try.
StoreError(p) ==
    /\ calls[p].pc \in {"find", "update"}
    /\ calls' = [calls EXCEPT ![p] = Caught(calls[p])]
    /\ UNCHANGED <<modifyIndex, initialIndex, msgModseq, journal, outsideAdd>>

\* a create that writes over the last document
MutJournalsCreate(docs, entries) ==
    SubSeq(docs, 1, Len(docs) - 1) \o entries

\* Journals.create(entries): the documents are added to the collection.
JournalsCreate(docs, entries) == docs \o entries

\* Lines 280-284: await Journals.create(entries); return entries.length
CreateJournal(p) ==
    /\ calls[p].pc = "create"
    /\ journal' = JournalsCreate(journal, calls[p].entries)
    /\ LET c1 == [calls[p] EXCEPT !.pc = "returned",
                                  !.result = Len(calls[p].entries)]
       IN  /\ calls' = [calls EXCEPT ![p] = c1]
    /\ UNCHANGED <<modifyIndex, initialIndex, msgModseq, outsideAdd>>

\* ------------------------------------------------- addEntries: the runs
\* The entries of a call, in a fixed order: one entry { message: m } for each
\* m of `updated`, then `plain` entries with neither message nor modseq, then
\* (supplied > 0) one entry { modseq: supplied, message: about }.
RECURSIVE MessageEntries(_, _)
MessageEntries(updated, m) ==
    IF m > NumMessages THEN <<>>
    ELSE (IF m \in updated THEN <<[modseq |-> 0, message |-> m]>> ELSE <<>>)
         \o MessageEntries(updated, m + 1)

EntriesOf(updated, plain, supplied, about) ==
    MessageEntries(updated, 1)
        \o [i \in 1..plain |-> [modseq |-> 0, message |-> 0]]
        \o (IF supplied > 0 THEN <<[modseq |-> supplied, message |-> about]>>
            ELSE <<>>)

\* Concurrent callers: each passes the mailbox's id and one entry that refers
\* to a message, as a FETCH does for the messages it has touched.
ConcurrentArgs == { EntriesOf({m}, 0, 0, 0) : m \in Msgs }

InitAdd ==
    /\ modifyIndex \in 0..MaxInitIndex
    /\ initialIndex = modifyIndex
    /\ msgModseq \in [Msgs -> 0..modifyIndex]
    /\ journal = <<>>
    /\ calls = [p \in Procs |-> IdleCall]
    /\ NotifierInit(0, MaxMessages)
    /\ FetchAtRest
    /\ ReleaseAtRest
    /\ CalDAVAtRest

NextAdd ==
    \/ \E p \in Procs, items \in ConcurrentArgs :
          \* callers are interchangeable: they are numbered as they start
          /\ \A q \in 1..(p - 1) : calls[q].pc # "idle"
          /\ Start(p, [isArray |-> TRUE, items |-> items],
                   MailboxRef("id", 0), TRUE, TRUE, TRUE)
    \/ \E p \in Procs : MintModseq(p)
    \/ \E p \in Procs : FindMessages(p)
    \/ \E p \in Procs : UpdateMessage(p)
    \/ \E p \in Procs : StoreError(p)
    \/ \E p \in Procs : CreateJournal(p)

SpecAdd == InitAdd /\ [][NextAdd]_vars

\* One call run alone, with every kind of argument: entries with and
\* without a message and a modseq of their own, as an array or as one object,
\* every kind of mailbox reference, every collaborator present or missing.
AnyArgs ==
    { [isArray |-> a, items |-> EntriesOf(u, plain, supplied, about)] :
        a \in BOOLEAN, u \in SUBSET Msgs, plain \in 0..1,
        supplied \in 0..MaxSuppliedModseq, about \in 0..NumMessages }

\* A mailbox document a caller loaded earlier holds a modifyIndex the mailbox
\* has had: at most its current one.
MailboxRefs ==
    {MailboxRef(k, 0) : k \in {"none", "id", "unknown"}}
        \cup {MailboxRef("object", i) : i \in 0..modifyIndex}

NextArgs ==
    \/ /\ \A q \in Procs : calls[q].pc = "idle"
       /\ \E arg \in AnyArgs, db, wsp, pw \in BOOLEAN :
             \E ref \in MailboxRefs :
                /\ Len(arg.items) <= MaxEntries
                /\ arg.isArray \/ Len(arg.items) <= 1
                /\ Start(1, arg, ref, db, wsp, pw)
    \/ \E p \in Procs : MintModseq(p)
    \/ \E p \in Procs : FindMailbox(p)
    \/ \E p \in Procs : FindMessages(p)
    \/ \E p \in Procs : UpdateMessage(p)
    \/ \E p \in Procs : StoreError(p)
    \/ \E p \in Procs : CreateJournal(p)

SpecArgs == InitAdd /\ [][NextArgs]_vars

\* ----------------------------------------------------- addEntries: claims
\* The callers that have had their modseq minted (lines 173-201).
Minted(p) ==
    /\ Len(calls[p].updated) > 0
    /\ calls[p].pc \in {"find", "update", "create", "returned"}

\* C1: concurrent addEntries calls that each carry an entry referring to a
\* message: no two obtain the same minted modseq, and the mailbox's
\* modifyIndex is its initial value plus the number of calls that have minted
\* (so initial + N once all N have).
C1_DistinctModseqs ==
    /\ \A p, q \in Procs :
          p # q /\ Minted(p) /\ Minted(q) => calls[p].modseq # calls[q].modseq
    /\ modifyIndex = initialIndex + Cardinality({p \in Procs : Minted(p)})

\* Every caller has minted and none has finished: the calls overlap.
C1_Witness == \A p \in Procs : calls[p].pc = "find"

\* C2: a stored message's modseq never decreases, whatever the interleaving
\* of the calls' store accesses.
C2_ModseqNeverDecreases ==
    [][\A m \in Msgs : msgModseq'[m] >= msgModseq[m]]_vars

\* C3: every journal entry's modseq is at most the modifyIndex of its
\* mailbox, also for entries that came with a modseq of their own.
C3_JournalWithinModifyIndex ==
    \A i \in 1..Len(journal) : journal[i].modseq <= modifyIndex

\* C4: addEntries run alone from the initial state (M.modifyIndex = k, every
\* message's modseq at most k) with the one entry { message: m } and no store
\* error: M.modifyIndex = k + 1, m.modseq = k + 1, and the journal has gained
\* exactly one entry, with modseq k + 1.
C4_SingleEntryScenario ==
    \A m \in Msgs :
        (/\ calls[1].pc = "returned"
         /\ calls[1].updated = <<m>>
         /\ Len(calls[1].entries) = 1
         /\ ~calls[1].logged)
        => /\ modifyIndex = initialIndex + 1
           /\ msgModseq[m] = initialIndex + 1
           /\ journal = <<[modseq |-> initialIndex + 1, message |-> m]>>
           /\ calls[1].result = 1

\* The scenario has run with the message behind by two (k = 1, m.modseq = 0).
C4_Witness ==
    /\ calls[1].pc = "returned"
    /\ calls[1].updated = <<1>>
    /\ Len(calls[1].entries) = 1
    /\ ~calls[1].logged
    /\ initialIndex = 1
    /\ msgModseq[1] = 2
    /\ msgModseq[2] = 0

\* C27: when a call run alone has returned a count, the mailbox's modifyIndex
\* is one above what it was if an entry given to the call refers to a message
\* and has no modseq, and is what it was otherwise; every entry given without
\* a modseq carries the mailbox's modifyIndex, every other entry its own.
C27_OneIncrementStampsAll ==
    \A p \in Procs :
        (calls[p].pc = "returned" /\ calls[p].result > 0)
        => LET given == calls[p].given
               entries == calls[p].entries
           IN  /\ modifyIndex = initialIndex +
                     (IF \E i \in 1..Len(given) :
                            given[i].modseq = 0 /\ given[i].message # 0
                      THEN 1 ELSE 0)
               /\ \A i \in 1..Len(given) :
                     entries[i].modseq =
                        IF given[i].modseq = 0 THEN modifyIndex
                        ELSE given[i].modseq

\* C28: a step that writes a message's modseq writes a value that is not
\* below the mailbox's modifyIndex of that moment, whatever the interleaving
\* of the calls' store accesses.
C28_WrittenModseqNotBelowIndex ==
    [][\A m \in Msgs :
          msgModseq'[m] # msgModseq[m] => msgModseq'[m] >= modifyIndex]_vars

\* the entries of a call stand in the journal, one after the other
Appended(entries) ==
    \E k \in 0..(Len(journal) - Len(entries)) :
        SubSeq(journal, k + 1, k + Len(entries)) = entries

\* C29: a call whose read of the updated messages, or one of whose
\* corrective updates, has failed is on its way to the journal or has
\* returned, never thrown; once it has returned, all the entries it was given
\* are in the journal and it has returned their count.
C29_StoreFailureStillAppends ==
    \A p \in Procs :
        calls[p].logged
        => /\ calls[p].pc \in {"create", "returned"}
           /\ calls[p].error = "none"
           /\ calls[p].pc = "returned"
                => /\ calls[p].result = Len(calls[p].given)
                   /\ Len(calls[p].entries) = Len(calls[p].given)
                   /\ Appended(calls[p].entries)

\* Both callers have returned their count; a store access of one failed,
\* that of the other did not.
C29_Witness ==
    /\ \A p \in Procs : calls[p].pc = "returned" /\ calls[p].result = 1
    /\ \E p, q \in Procs : calls[p].logged /\ ~calls[q].logged
    /\ Len(journal) = NumProcs

\* C30: a call that has thrown has thrown one of the three contract errors
\* or NoSuchMailbox and has found no mailbox; no step of a call that has
\* found no mailbox changes the mailbox's modifyIndex, a message's modseq or
\* the journal; so a call run alone that has thrown has left modifyIndex as
\* it was and the journal empty.
C30_FailedCallChangesNothing ==
    /\ [](\A p \in Procs :
             calls[p].pc = "threw"
             => /\ calls[p].error \in {"DatabaseMissing", "WSPMissing",
                                       "PasswordMissing", "NoSuchMailbox"}
                /\ ~calls[p].mailbox.found
                /\ modifyIndex = initialIndex
                /\ journal = <<>>)
    /\ [][\A p \in Procs :
             /\ (calls'[p] # calls[p] /\ ~calls'[p].mailbox.found)
                => /\ modifyIndex' = modifyIndex
                   /\ msgModseq' = msgModseq
                   /\ journal' = journal
             /\ (calls[p].pc # "idle" /\ calls[p].mailbox.found)
                => calls'[p].mailbox.found]_vars

\* A call with an entry that refers to a message and the id of no mailbox
\* has been through findOneAndUpdate and findOne and has thrown, with the
\* mailbox's modifyIndex at 1 and a message behind it.
C30_Witness ==
    /\ calls[1].pc = "threw"
    /\ calls[1].error = "NoSuchMailbox"
    /\ calls[1].query = "unknown"
    /\ Len(calls[1].updated) > 0
    /\ modifyIndex = 1
    /\ msgModseq[1] = 0

\* C31: a call made with no entry, with the store handle, the command
\* channel and the password present, has returned the no-op result (false,
\* here 0) without an error, whatever the mailbox reference; the mailbox's
\* modifyIndex is what it was, the journal is empty, and the step of the call
\* has changed no message's modseq.
C31_EmptyListIsNoOp ==
    /\ [](\A p \in Procs :
             (/\ calls[p].pc # "idle"
              /\ calls[p].args.db /\ calls[p].args.wsp /\ calls[p].args.pw
              /\ calls[p].args.count = 0)
             => /\ calls[p].pc = "returned"
                /\ calls[p].result = 0
                /\ calls[p].error = "none"
                /\ modifyIndex = initialIndex
                /\ journal = <<>>)
    /\ [][\A p \in Procs :
             (calls'[p] # calls[p] /\ calls'[p].args.count = 0)
             => /\ modifyIndex' = modifyIndex
                /\ msgModseq' = msgModseq
                /\ journal' = journal]_vars

\* A call with no entry and no mailbox reference has returned, the mailbox
\* past its first modifyIndex.
C31_Witness ==
    /\ calls[1].pc = "returned"
    /\ calls[1].args.count = 0
    /\ calls[1].args.ref = "none"
    /\ calls[1].args.db /\ calls[1].args.wsp /\ calls[1].args.pw
    /\ modifyIndex = 1

\* C22: no step changes or removes an entry the journal holds, and a call
\* that returns a count has added that many entries, as many as it was given.
C22_JournalAppendOnly ==
    [][/\ Len(journal') >= Len(journal)
       /\ SubSeq(journal', 1, Len(journal)) = journal
       /\ \A p \in Procs :
             (calls[p].pc # "returned" /\ calls'[p].pc = "returned"
                  /\ calls[p].pc # "idle")
             => /\ calls'[p].result = Len(calls[p].entries)
                /\ Len(journal') = Len(journal) + calls'[p].result]_vars

\* Two callers have returned, the second with the entry of the first still
\* in the journal before its own.
C22_Witness ==
    /\ \A p \in Procs : calls[p].pc = "returned" /\ calls[p].result > 0
    /\ Len(journal) > 1


\* setTimeout(..., 100)
DebounceMs == 100
\* data.initial < Date.now() - 1000
ForceMs == 1000
\* the clock moves in steps of half the debounce delay
TimeStep == DebounceMs \div 2
\* config.IMAP_REDIS_CHANNEL_NAME, and some other channel
ChannelName == "imap"
OtherChannel == "other"

\* ----------------------------------------------------------- messages
\* JavaScript values a payload may be; all but "object" are falsy.
Payloads == {"undefined", "null", "false", "zero", "empty", "object"}

Truthy(p) == p \notin {"undefined", "null", "false", "zero", "empty"}

\* A raw message on the channel, by what JSON.parse makes of it: "text" does
\* not parse, "null" parses to null, "scalar" to a number or a string,
\* "object" to an object whose e is `e` ("": no e) and whose p, if it has
\* one, is `p`.
Raw(kind, e, hasP, p) == [kind |-> kind, e |-> e, hasP |-> hasP, p |-> p]

\* safeStringify({ e: aliasId, p: payload }): a key whose value is undefined
\* is left out; every other payload is written and parses back to itself.
Stringify(aliasId, payload) ==
    Raw("object", aliasId, payload # "undefined", payload)

\* data.p of a parsed object
ParsedP(raw) == IF raw.hasP THEN raw.p ELSE "undefined"

\* ------------------------------------------------- scheduleDataEvent
\* the > turned into >=
MutIsOverdue(initial, t) == initial <= t - ForceMs

\* data.initial < Date.now() - 1000
IsOverdue(initial, t) == initial < t - ForceMs

\* a timer that is set one step late
MutTimerDue(t) == t + DebounceMs + TimeStep

\* setTimeout(() => fire(), 100) at time t falls due at
TimerDue(t) == t + DebounceMs

Timer(ev, due) == [ev |-> ev, due |-> due]

\* a fire() that leaves the record in the map
MutAfterFire(ev, timers, set) ==
    [timers |-> timers,
     armed |-> set \ {Timer(ev, timers[ev].timeout)},
     fired |-> TRUE]

\* Lines 55-59, fire(): clear the timeout, delete the record; the caller
\* emits. The history notes the emission.
AfterFire(ev, timers, set) ==
    [timers |-> [timers EXCEPT ![ev] = NoRecord],
     armed |-> set \ {Timer(ev, timers[ev].timeout)},
     fired |-> TRUE]

\* a scheduler that clears the timeout of a pending record and sets no new one
MutSchedule(ev, t) ==
    IF publishTimers[ev].has
    THEN LET data == [publishTimers[ev] EXCEPT !.count = @ + 1]
             cleared == armed \ {Timer(ev, data.timeout)}
         IN  IF IsOverdue(data.initial, t)
             THEN AfterFire(ev, [publishTimers EXCEPT ![ev] = data], cleared)
             ELSE [timers |-> [publishTimers EXCEPT ![ev] = data],
                   armed |-> cleared,
                   fired |-> FALSE]
    ELSE [timers |-> [publishTimers EXCEPT
                         ![ev] = [has |-> TRUE, count |-> 1, initial |-> t,
                                  timeout |-> TimerDue(t)]],
          armed |-> armed \cup {Timer(ev, TimerDue(t))},
          fired |-> FALSE]

\* Lines 61-85, at time t; `fired` says whether fire() ran.
Schedule(ev, t) ==
    IF publishTimers[ev].has
    THEN LET data == [publishTimers[ev] EXCEPT !.count = @ + 1]
             cleared == armed \ {Timer(ev, data.timeout)}
         IN  IF IsOverdue(data.initial, t)
             THEN AfterFire(ev, [publishTimers EXCEPT ![ev] = data], cleared)
             ELSE [timers |-> [publishTimers EXCEPT
                                  ![ev] = [data EXCEPT !.timeout = TimerDue(t)]],
                   armed |-> cleared \cup {Timer(ev, TimerDue(t))},
                   fired |-> FALSE]
    ELSE [timers |-> [publishTimers EXCEPT
                         ![ev] = [has |-> TRUE, count |-> 1, initial |-> t,
                                  timeout |-> TimerDue(t)]],
          armed |-> armed \cup {Timer(ev, TimerDue(t))},
          fired |-> FALSE]

\* The history of a key after a pulse, and after an emission, at time t.
HistPulse(h, t) ==
    IF h.firstPulseAt = Never /\ h.tight
    THEN [h EXCEPT !.owed = TRUE, !.lastPulseAt = t, !.firstPulseAt = t]
    ELSE IF h.tight /\ t - h.lastPulseAt <= TimeStep
    THEN [h EXCEPT !.owed = TRUE, !.lastPulseAt = t]
    ELSE [NoHist EXCEPT !.owed = TRUE, !.lastPulseAt = t, !.tight = FALSE,
                        !.registered = h.registered, !.watch = h.watch,
                        !.left = h.left, !.joined = h.joined]

\* The history of a key when a pulse finds no record and makes one, and when
\* a handler is added or removed (pending: the key has a record).
HistRecord(h, pending) ==
    IF pending THEN h ELSE [h EXCEPT !.left = {}, !.joined = {}]

HistAdded(h, handler, pending) ==
    [h EXCEPT !.registered[handler] = @ + 1,
              !.joined = IF pending /\ h.watch THEN @ \cup {handler} ELSE @]

HistRemoved(h, handler, pending) ==
    [h EXCEPT !.registered[handler] = @ - 1,
              !.left = IF pending /\ h.watch THEN @ \cup {handler} ELSE @]

HistEmit(h, t) ==
    IF h.tight
    THEN [h EXCEPT !.owed = FALSE,
                   !.emits = IF @ < 2 THEN @ + 1 ELSE @,
                   !.firstEmitAt = IF @ = Never THEN t ELSE @]
    ELSE [h EXCEPT !.owed = FALSE]

\* --------------------------------------------------- notifier: actions
\* Lines 88-102: what the handler does with a message.
Handling(chName, raw) ==
    IF chName # ChannelName THEN "dropped"
    ELSE IF raw.kind = "text" THEN "dropped"
    ELSE IF raw.kind = "null" THEN "threw"
    ELSE IF raw.kind = "scalar" \/ raw.e = "" THEN "dropped"
    ELSE IF ~Truthy(ParsedP(raw)) THEN "schedule"
    ELSE "emit"

Received(raw, origin) ==
    [NoEvent EXCEPT !.kind = "message", !.origin = origin, !.ev = raw.e,
                    !.hasP = raw.hasP, !.payload = ParsedP(raw)]

\* an emitter that calls the handlers of every key
MutEmitting(event, ev, payload) ==
    [event EXCEPT !.ev = ev, !.emitted = TRUE, !.called = listeners,
                  !.argument = payload]

\* this._listeners.emit(ev, payload): every registration of ev is called,
\* and no other.
Emitting(event, ev, payload) ==
    [event EXCEPT !.ev = ev, !.emitted = TRUE,
                  !.called = [k \in Keys |->
                                IF k = ev THEN listeners[k] ELSE NoCalls],
                  !.argument = payload]

\* subscriber.on('message', (channel, message) => ...)
OnMessage(chName, raw, origin) ==
    LET how == Handling(chName, raw)
    IN  /\ IF how = "schedule"
           THEN LET r == Schedule(raw.e, now)
                    seen == [Received(raw, origin) EXCEPT !.scheduled = TRUE]
                IN  /\ publishTimers' = r.timers
                    /\ armed' = r.armed
                    /\ hist' = [hist EXCEPT ![raw.e] =
                                  LET h == HistRecord(@, publishTimers[raw.e].has)
                                  IN  IF r.fired
                                      THEN HistEmit(HistPulse(h, now), now)
                                      ELSE HistPulse(h, now)]
                    /\ lastEvent' = IF r.fired
                                    THEN Emitting(seen, raw.e, "undefined")
                                    ELSE seen
           ELSE /\ UNCHANGED <<publishTimers, armed, hist>>
                /\ lastEvent' =
                     IF how = "emit"
                     THEN Emitting(Received(raw, origin), raw.e, ParsedP(raw))
                     ELSE [NoEvent EXCEPT !.kind = how]
        /\ UNCHANGED <<now, horizon, quota, listeners, outsideNotifier>>

\* A message some process has published reaches this process's handler.
Arrive(chName, raw) ==
    /\ OnMessage(chName, raw, "other")
    /\ UNCHANGED <<immediates, channel, sent, fires>>

\* Lines 78-80: a timeout falls due and its callback runs fire().
TimerFire(ev) ==
    /\ \E t \in armed : t.ev = ev /\ t.due <= now
    /\ LET r == AfterFire(ev, publishTimers, armed)
       IN  /\ publishTimers' = r.timers
           /\ armed' = {t \in r.armed : ~(t.ev = ev /\ t.due <= now)}
    /\ hist' = [hist EXCEPT ![ev] = HistEmit(@, now)]
    /\ lastEvent' = Emitting([NoEvent EXCEPT !.kind = "timer"], ev, "undefined")
    /\ UNCHANGED <<now, horizon, quota, listeners, immediates, channel, sent,
                   fires, outsideNotifier>>

\* Time passes, once every timeout that is due has run.
Tick ==
    /\ now + TimeStep <= horizon
    /\ \A t \in armed : t.due > now
    /\ now' = now + TimeStep
    /\ lastEvent' = NoEvent
    /\ UNCHANGED <<horizon, quota, publishTimers, armed, listeners, immediates,
                   channel, sent, fires, hist, outsideNotifier>>

RECURSIVE SumOver(_, _)
SumOver(f, S) ==
    IF S = {} THEN 0
    ELSE LET x == CHOOSE y \in S : TRUE
         IN  f[x] + SumOver(f, S \ {x})

\* this._listeners.listenerCount(k), and the registrations of all keys
ListenerCount(k) == SumOver(listeners[k], Handlers)
Registered == SumOver([k \in Keys |-> ListenerCount(k)], Keys)

\* this._listeners.addListener(session.user.alias_id, handler): one more
\* registration of the handler.
AddListener(k, h) ==
    /\ Registered < MaxRegistrations
    /\ listeners' = [listeners EXCEPT ![k][h] = @ + 1]
    /\ hist' = [hist EXCEPT ![k] = HistAdded(@, h, publishTimers[k].has)]
    /\ lastEvent' = NoEvent
    /\ UNCHANGED <<now, horizon, quota, publishTimers, armed, immediates,
                   channel, sent, fires, outsideNotifier>>

\* a removal that leaves the registration where it is
MutRemoved(count) == count

\* EventEmitter.removeListener takes one registration of the handler away.
Removed(count) == count - 1

\* this._listeners.removeListener(session.user.alias_id, handler): one
\* registration of the handler less, if it has one.
RemoveListener(k, h) ==
    /\ listeners[k][h] > 0
    /\ listeners' = [listeners EXCEPT ![k][h] = Removed(@)]
    /\ hist' = [hist EXCEPT ![k] = HistRemoved(@, h, publishTimers[k].has)]
    /\ lastEvent' = NoEvent
    /\ UNCHANGED <<now, horizon, quota, publishTimers, armed, immediates,
                   channel, sent, fires, outsideNotifier>>

\* Lines 287-299, fire(aliasId, payload): throws without an alias id, else
\* leaves the publication to setImmediate.
Fire(aliasId, payload) ==
    /\ IF aliasId = ""
       THEN /\ lastEvent' = [NoEvent EXCEPT !.kind = "threw"]
            /\ UNCHANGED <<immediates, sent, fires>>
       ELSE /\ sent < quota
            /\ sent' = sent + 1
            /\ fires' = [fires EXCEPT !.calls = @ + 1]
            /\ immediates' = Append(immediates,
                                    [e |-> aliasId, p |-> payload,
                                     n |-> fires.calls + 1])
            /\ lastEvent' = NoEvent
    /\ UNCHANGED <<now, horizon, quota, publishTimers, armed, listeners, channel,
                   hist, outsideNotifier>>

\* the callback set last runs first
MutNextImmediate(q) == Len(q)

\* setImmediate callbacks run in the order they were set
NextImmediate(q) == 1

\* Lines 290-297, the setImmediate callback: publish the envelope.
RunImmediate ==
    /\ immediates # <<>>
    /\ LET i == NextImmediate(immediates)
           callback == immediates[i]
       IN  /\ immediates' = [j \in 1..(Len(immediates) - 1) |->
                               IF j < i THEN immediates[j]
                               ELSE immediates[j + 1]]
           /\ channel' = Append(channel,
                                [ch |-> ChannelName, origin |-> "fire",
                                 raw |-> Stringify(callback.e, callback.p)])
           /\ fires' = [fires EXCEPT !.published = Append(@, callback.n)]
    /\ lastEvent' = NoEvent
    /\ UNCHANGED <<now, horizon, quota, publishTimers, armed, listeners, sent,
                   hist, outsideNotifier>>

\* What other publishers may put on a channel: text that does not parse,
\* null, a scalar, or an object with or without e and p (JSON has no
\* undefined).
RawMessages ==
    {Raw(k, "", FALSE, "undefined") : k \in {"text", "null", "scalar"}}
    \cup {Raw("object", e, FALSE, "undefined") : e \in Keys \cup {""}}
    \cup {Raw("object", e, TRUE, q) : e \in Keys, q \in {"null", "object"}}

\* What they publish where: any of these on the notifier's channel, and an
\* envelope with a payload on another one (the handler returns on the
\* channel's name, before it looks at the message).
Published ==
    {<<ChannelName, raw>> : raw \in RawMessages}
        \cup {<<OtherChannel, Stringify(k, "object")>> : k \in Keys}

\* Some other client of the Redis server publishes.
ExternalPublish(chName, raw) ==
    /\ sent < quota
    /\ sent' = sent + 1
    /\ channel' = Append(channel,
                         [ch |-> chName, origin |-> "other", raw |-> raw])
    /\ lastEvent' = NoEvent
    /\ UNCHANGED <<now, horizon, quota, publishTimers, armed, listeners,
                   immediates, fires, hist, outsideNotifier>>

\* The subscriber hands the next published message to the handler.
Deliver ==
    /\ channel # <<>>
    /\ channel' = Tail(channel)
    /\ OnMessage(Head(channel).ch, Head(channel).raw, Head(channel).origin)
    /\ UNCHANGED <<immediates, sent, fires>>

\* ----------------------------------------------------- notifier: the runs
\* the clock is followed for this long
ShortHorizon == 100

InitNotify ==
    /\ modifyIndex = 0
    /\ initialIndex = 0
    /\ msgModseq = [m \in Msgs |-> 0]
    /\ journal = <<>>
    /\ calls = [p \in Procs |-> IdleCall]
    /\ NotifierInit(ShortHorizon, MaxMessages)
    /\ FetchAtRest
    /\ ReleaseAtRest
    /\ CalDAVAtRest

NextNotify ==
    \/ \E k \in Keys, h \in Handlers : AddListener(k, h)
    \/ \E k \in Keys, h \in Handlers : RemoveListener(k, h)
    \/ \E aliasId \in Keys \cup {""}, payload \in Payloads :
          Fire(aliasId, payload)
    \/ RunImmediate
    \/ \E m \in Published : ExternalPublish(m[1], m[2])
    \/ Deliver
    \/ \E ev \in Keys : TimerFire(ev)
    \/ Tick

SpecNotify == InitNotify /\ [][NextNotify]_vars

\* --------------------------------------------------------- fire: the runs
\* fire() calls of a run that has nothing but fire() calls
MaxFires == 3

\* Callers call fire(), with a payload or without; the callbacks run and the
\* subscriber receives what was published.
InitFire ==
    /\ modifyIndex = 0
    /\ initialIndex = 0
    /\ msgModseq = [m \in Msgs |-> 0]
    /\ journal = <<>>
    /\ calls = [p \in Procs |-> IdleCall]
    /\ NotifierInit(0, MaxFires)
    /\ FetchAtRest
    /\ ReleaseAtRest
    /\ CalDAVAtRest

NextFire ==
    \/ \E aliasId \in Keys, payload \in {"undefined", "object"} :
          Fire(aliasId, payload)
    \/ RunImmediate
    \/ Deliver

SpecFire == InitFire /\ [][NextFire]_vars

\* ---------------------------------------------------- listeners: the runs
\* Handlers come and go while pulses and messages with a payload are
\* published and received, and the clock runs to the first timeout.
InitListen ==
    /\ modifyIndex = 0
    /\ initialIndex = 0
    /\ msgModseq = [m \in Msgs |-> 0]
    /\ journal = <<>>
    /\ calls = [p \in Procs |-> IdleCall]
    /\ now = 0
    /\ horizon = ShortHorizon
    /\ quota = MaxMessages
    /\ fires = [calls |-> 0, published |-> <<>>]
    /\ publishTimers = [k \in Keys |-> NoRecord]
    /\ armed = {}
    /\ listeners = [k \in Keys |-> NoCalls]
    /\ immediates = <<>>
    /\ channel = <<>>
    /\ sent = 0
    /\ hist = [k \in Keys |-> [NoHist EXCEPT !.watch = TRUE]]
    /\ lastEvent = NoEvent
    /\ FetchAtRest
    /\ ReleaseAtRest
    /\ CalDAVAtRest

NextListen ==
    \/ \E k \in Keys, h \in Handlers : AddListener(k, h)
    \/ \E k \in Keys, h \in Handlers : RemoveListener(k, h)
    \/ \E k \in Keys, payload \in {"undefined", "object"} :
          ExternalPublish(ChannelName, Stringify(k, payload))
    \/ Deliver
    \/ \E ev \in Keys : TimerFire(ev)
    \/ Tick

SpecListen == InitListen /\ [][NextListen]_vars

\* ----------------------------------------------------- debounce: the runs
\* the clock is followed for this long
LongHorizon == 1300

\* A payload-less pulse for key "a", at most one in an instant, and none so
\* late that its timeout would fall due after the horizon.
PulseArrives ==
    /\ hist["a"].lastPulseAt < now
    /\ now + DebounceMs <= horizon
    /\ Arrive(ChannelName, Stringify("a", "undefined"))

InitDebounce ==
    /\ modifyIndex = 0
    /\ initialIndex = 0
    /\ msgModseq = [m \in Msgs |-> 0]
    /\ journal = <<>>
    /\ calls = [p \in Procs |-> IdleCall]
    /\ NotifierInit(LongHorizon, MaxMessages)
    /\ FetchAtRest
    /\ ReleaseAtRest
    /\ CalDAVAtRest

NextDebounce ==
    \/ PulseArrives
    \/ \E ev \in Keys : TimerFire(ev)
    \/ Tick

SpecDebounce == InitDebounce /\ [][NextDebounce]_vars

\* Timers are run by the event loop once due, and time goes on.
SpecDebounceLive ==
    /\ SpecDebounce
    /\ WF_vars(Tick)
    /\ WF_vars(\E ev \in Keys : TimerFire(ev))

\* ------------------------------------------------------- debounce: claims
\* Pulses for the key have come at every clock step (every 50 ms) from time 0
\* up to the last one.
Regular(k) == hist[k].tight /\ hist[k].firstPulseAt = 0

\* The pulses for the key so far each came within 50 ms of the one before.
Burst(k) == hist[k].tight /\ hist[k].firstPulseAt # Never

\* C5 as claimed: pulses every 50 ms for 1200 ms from time 0 have an emission
\* no later than 1000 ms after the first pulse.
C5_EmissionWithin1000 ==
    (Regular("a") /\ hist["a"].lastPulseAt = ForceMs + 2 * DebounceMs)
    => (hist["a"].emits >= 1 /\ hist["a"].firstEmitAt <= ForceMs)

\* C5 as amended: while pulses keep coming every 50 ms from time 0 there is
\* no emission in the first 1000 ms, and the first emission is the one forced
\* by the pulse at 1050 ms, the first that comes more than 1000 ms after the
\* first pulse.
C5_FirstEmissionAt1050 ==
    Regular("a") =>
        /\ (now <= ForceMs /\ now <= hist["a"].lastPulseAt + TimeStep)
              => hist["a"].emits = 0
        /\ hist["a"].lastPulseAt > ForceMs
              => (hist["a"].emits >= 1
                  /\ hist["a"].firstEmitAt = ForceMs + TimeStep)

C5_Witness ==
    /\ Regular("a")
    /\ hist["a"].lastPulseAt = ForceMs + 2 * DebounceMs
    /\ hist["a"].emits = 1

\* What C6 says of a burst: one emission at most, made 100 ms after the last
\* pulse and made once those 100 ms are over.
OneEmissionAfterQuiescence(k) ==
    /\ hist[k].emits <= 1
    /\ hist[k].emits = 1 => hist[k].firstEmitAt = hist[k].lastPulseAt + DebounceMs
    /\ now > hist[k].lastPulseAt + DebounceMs => hist[k].emits = 1

\* C6 as claimed: any number of pulses, each within 50 ms of the one before,
\* give exactly one emission, made once 100 ms have passed without a pulse
\* and not before.
C6_OneEmissionPerBurst == Burst("a") => OneEmissionAfterQuiescence("a")

\* C6 as amended: the same, for a burst whose last pulse comes no more than
\* 1000 ms after its first.
C6_OneEmissionPerShortBurst ==
    (Burst("a") /\ hist["a"].lastPulseAt - hist["a"].firstPulseAt <= ForceMs)
    => OneEmissionAfterQuiescence("a")

\* A burst of 1000 ms has had its one emission.
C6_Witness ==
    /\ Burst("a")
    /\ hist["a"].lastPulseAt - hist["a"].firstPulseAt = ForceMs
    /\ hist["a"].emits = 1
    /\ now > hist["a"].lastPulseAt + DebounceMs

\* C7: every pulse received for a key is eventually followed by an emission
\* for that key, whatever pulses come after it.
C7_NoStarvation == \A k \in Keys : hist[k].owed ~> ~hist[k].owed

\* Pulses have come every 50 ms for more than 1000 ms and the emission was
\* forced by a pulse.
C7_Witness ==
    /\ Burst("a")
    /\ hist["a"].lastPulseAt - hist["a"].firstPulseAt > ForceMs
    /\ hist["a"].firstEmitAt = hist["a"].lastPulseAt
    /\ ~hist["a"].owed

\* the timeouts set for a key and not yet run or cleared
ArmedFor(set, k) == {t \in set : t.ev = k}

\* C34: a key has at most one timeout armed, and has one exactly when it has
\* a pending record (the one the record holds), which is exactly when a
\* pulse for it has come since its last emission; a step that emits for a
\* key by the scheduler, by timeout or forced, finds a record for the key and
\* leaves neither a record nor a timeout for it. So every emission uses up a
\* pulse, and there are never more emissions than pulses.
C34_OneRecordOneTimer ==
    /\ [](\A k \in Keys :
             /\ Cardinality(ArmedFor(armed, k)) <= 1
             /\ publishTimers[k].has <=> ArmedFor(armed, k) # {}
             /\ publishTimers[k].has
                  => /\ ArmedFor(armed, k) = {Timer(k, publishTimers[k].timeout)}
                     /\ publishTimers[k].count >= 1
             /\ publishTimers[k].has <=> hist[k].owed)
    /\ [][\A k \in Keys :
             (/\ lastEvent'.emitted
              /\ lastEvent'.ev = k
              /\ (lastEvent'.kind = "timer" \/ lastEvent'.scheduled))
             => /\ publishTimers[k].has
                /\ ~publishTimers'[k].has
                /\ ArmedFor(armed', k) = {}]_vars

\* After a forced emission two more pulses have come: the key has a new
\* record that counts both, and its timeout.
C34_Witness ==
    /\ Burst("a")
    /\ hist["a"].emits = 1
    /\ hist["a"].firstEmitAt > ForceMs
    /\ publishTimers["a"].has
    /\ publishTimers["a"].count = 2
    /\ publishTimers["a"].initial > ForceMs

\* ------------------------------------------------------- notifier: claims
\* C8: a message published by fire() with a payload, whatever its value, is on
\* receipt handed at once and once to every registration of its key, with
\* that payload, and the scheduler is not called.
C8_PayloadNeverDebounced ==
    (lastEvent.kind = "message" /\ lastEvent.origin = "fire" /\ lastEvent.hasP)
    => /\ ~lastEvent.scheduled
       /\ lastEvent.called[lastEvent.ev] = listeners[lastEvent.ev]
       /\ lastEvent.argument = lastEvent.payload

\* a published message that is no envelope: on another channel, text that is
\* not JSON, JSON that is no object, or an object without e
NoEnvelope(m) ==
    \/ m.ch # ChannelName
    \/ m.raw.kind \in {"text", "null", "scalar"}
    \/ m.raw.e = ""

\* C32: the handler, handed a message that is no envelope, drops it: it
\* raises nothing, emits nothing, calls no handler, and leaves the
\* scheduler's records and timers as they were.
C32_MalformedDroppedSilently ==
    [][(channel # <<>> /\ channel' = Tail(channel) /\ NoEnvelope(Head(channel)))
        => /\ lastEvent'.kind = "dropped"
           /\ ~lastEvent'.emitted
           /\ lastEvent'.called = [k \in Keys |-> NoCalls]
           /\ publishTimers' = publishTimers
           /\ armed' = armed]_vars

\* C21: a fire() call publishes nothing itself; the calls are published one
\* by one in the order they were made, each once, and all of them once the
\* callbacks have run.
C21_DeferredInOrder ==
    /\ [](/\ \A i \in 1..Len(fires.published) : fires.published[i] = i
          /\ Len(fires.published) + Len(immediates) = fires.calls)
    /\ [][fires'.calls # fires.calls
            => (channel' = channel /\ fires'.published = fires.published)]_vars

\* Three calls were made before any callback ran, and all were published.
C21_Witness ==
    /\ fires.calls > 2
    /\ Len(fires.published) = fires.calls
    /\ immediates = <<>>
    /\ Len(channel) > 2

\* C35: an emission for a key calls each handler as often as addListener
\* calls for it have not been undone by removeListener calls at that moment:
\* a handler whose registration was removed is not called, also when the
\* pulse emitted was pending at the removal, and a handler added while the
\* pulse was pending is called.
C35_RegistrationsAtEmission ==
    \A k \in Keys, h \in Handlers :
        (lastEvent.emitted /\ lastEvent.ev = k)
        => /\ lastEvent.called[k][h] = hist[k].registered[h]
           /\ (h \in hist[k].left /\ hist[k].registered[h] = 0)
                => lastEvent.called[k][h] = 0
           /\ (h \in hist[k].joined /\ hist[k].registered[h] > 0)
                => lastEvent.called[k][h] > 0

\* A pulse came for a key with one handler; while it was pending the handler
\* was removed and another added; the timeout has emitted to the second only.
C35_Witness ==
    /\ lastEvent.emitted
    /\ lastEvent.kind = "timer"
    /\ lastEvent.ev = "a"
    /\ "h1" \in hist["a"].left
    /\ hist["a"].registered["h1"] = 0
    /\ lastEvent.called["a"]["h1"] = 0
    /\ "h2" \in hist["a"].joined
    /\ lastEvent.called["a"]["h2"] = 1

\* C20: whenever an event is emitted for a key, be it a delivery with a
\* payload, a forced or a timed emission, every handler registered for the
\* key is called once per registration and no handler of another key is
\* called; a step that emits nothing calls no handler.
C20_EveryListenerOfTheKey ==
    \A k \in Keys, h \in Handlers :
        lastEvent.called[k][h] =
            IF lastEvent.emitted /\ k = lastEvent.ev THEN listeners[k][h]
            ELSE 0

\* An event is emitted for a key with a handler while another key has a
\* handler, too.
C20_Witness ==
    /\ lastEvent.emitted
    /\ ListenerCount(lastEvent.ev) > 0
    /\ \E k \in Keys : k # lastEvent.ev /\ ListenerCount(k) > 0

\* ============================================================ the FETCH
\* MAX_PAGE_SIZE (2500) and MAX_BULK_WRITE_SIZE (150), scaled down
PageSize == 1
BulkSize == 2
\* the CHANGEDSINCE value of a command that gives one
ChangedSince == 1

\* ------------------------------------------------------------ the store
\* A row of Messages is "none" (its uid is not handed out yet), "unseen" or
\* "seen" (its flags), or "gone" (expunged).
Present(u) == store[u] \in {"unseen", "seen"}

\* Message.modseq: messages get theirs in the order they arrive.
ModseqOf(u) == u

Range(q) == {q[i] : i \in 1..Len(q)}

\* sort: 'uid'
RECURSIVE SortByUid(_)
SortByUid(S) ==
    IF S = {} THEN <<>>
    ELSE LET m == CHOOSE x \in S : \A y \in S : x <= y
         IN  <<m>> \o SortByUid(S \ {m})

\* options.messages.length === session.selected.uidList.length
IsQueryAll(messages, list) == Len(messages) = Len(list)

\* the resumed query takes the last row again
MutAfterLast(uid, lastUid) == uid >= lastUid

\* { uid: { $gt: lastUid } }
AfterLast(uid, lastUid) == uid > lastUid

\* Lines 1034-1054 (and 1359-1366 of onFetch): the condition of the query.
Matches(u, f) ==
    /\ Present(u)
    /\ (f.options.changedSince # 0) => (ModseqOf(u) > f.options.changedSince)
    /\ (~IsQueryAll(f.options.messages, uidList))
          => (u \in Range(f.options.messages))
    /\ (f.lastUid # 0) => AfterLast(u, f.lastUid)

\* Lines 1346-1357: flags are among the fields only with options.flagsExist.
RowOf(u, f) ==
    [uid |-> u,
     flags |-> IF f.options.flagsExist THEN store[u] ELSE "undefined"]

\* Lines 1063-1108: every matching row, in uid order, as it is now.
QueryRows(f) ==
    LET sorted == SortByUid({u \in Uids : Matches(u, f)})
    IN  [i \in 1..Len(sorted) |-> RowOf(sorted[i], f)]

\* every uid passes for one of the snapshot
MutInSnapshot(uid, list) == TRUE

\* session.selected.uidList.includes(message.uid)
InSnapshot(uid, list) == uid \in Range(list)

\* Lines 1185-1186
MarkAsSeen(options, row) ==
    options.markAsSeen /\ row.flags # "undefined" /\ row.flags # "seen"

\* the threshold is never reached
MutAtThreshold(n) == FALSE

\* bulkWrite.length >= MAX_BULK_WRITE_SIZE
AtThreshold(n) == n >= BulkSize

\* compiled.length of the response for a message
CompiledLength(uid) == uid + 1

\* Messages.bulkWrite of updateOne operations that add \Seen, each to the
\* row with its uid if there is one.
BulkWritten(st, ops) ==
    [u \in Uids |->
        IF u \in Range(ops) /\ st[u] = "unseen" THEN "seen" ELSE st[u]]

\* --------------------------------------------------- getMessages: steps
\* the row loop is left (`how`: at its end, or by a break) and getMessages
\* returns
Returning(f, how) ==
    [f EXCEPT !.pc = "return", !.rows = <<>>, !.idx = 0, !.count = 0,
              !.ended = how]

\* an error is thrown up to the catch of onFetch, which hands it to fn
Thrown(f, error) ==
    [f EXCEPT !.pc = "done", !.response = "error", !.error = error,
              !.rows = <<>>, !.idx = 0, !.count = 0, !.bulkWrite = <<>>,
              !.ended = "thrown"]

\* a resumption that forgets the last uid
MutResumed(f) ==
    [f EXCEPT !.pc = "query", !.rows = <<>>, !.idx = 0, !.count = 0,
              !.lastUid = 0]

\* Lines 1142-1167: getMessages calls itself with what it has gathered, lastUid
\* included, and the pass that called stops with what the call returns.
Resumed(f) == [f EXCEPT !.pc = "query", !.rows = <<>>, !.idx = 0, !.count = 0]

\* on to the next row, if there is one
NextRow(f) ==
    IF f.idx < Len(f.rows) THEN [f EXCEPT !.pc = "rows", !.idx = @ + 1]
    ELSE Returning(f, "rows")

\* what a FETCH command may ask for: all of uidList or one of its uids
FetchOptions ==
    { [messages |-> m, markAsSeen |-> s, metadataOnly |-> o,
       flagsExist |-> x, changedSince |-> c] :
        m \in {uidList} \cup {<<u>> : u \in Range(uidList)},
        s \in BOOLEAN, o \in BOOLEAN, x \in BOOLEAN,
        c \in {0, ChangedSince} }

\* an onFetch that goes on to getMessages without the mailbox
MutNoSuchMailbox(options) ==
    [IdleFetch EXCEPT !.pc = "query", !.options = options, !.mailbox = FALSE]

\* Lines 1341-1344, 1412-1417: no mailbox was found; the IMAPError thrown
\* carries imapResponse, which the catch hands to fn.
NoSuchMailbox(options) ==
    [IdleFetch EXCEPT !.pc = "done", !.options = options, !.mailbox = FALSE,
                      !.response = "NONEXISTENT"]

\* Lines 1331-1381: onFetch looks the mailbox up and calls getMessages.
FetchStart(options, exists) ==
    /\ fetch.pc = "idle"
    /\ fetch' = IF exists
                THEN [IdleFetch EXCEPT !.pc = "query", !.options = options]
                ELSE NoSuchMailbox(options)
    /\ UNCHANGED <<store, uidList, socketOpen, closing, written, outsideFetch>>

\* Lines 1031-1108: getMessages (called by onFetch, or by itself with what
\* it has gathered so far) runs its query.
Query ==
    /\ fetch.pc = "query"
    /\ LET f == [fetch EXCEPT
                    !.queryAll = IsQueryAll(fetch.options.messages, uidList),
                    !.passes = @ + 1]
           rows == QueryRows(f)
       IN  fetch' = IF rows = <<>> THEN Returning(f, "rows")
                    ELSE [f EXCEPT !.pc = "rows", !.rows = rows, !.idx = 1,
                                   !.count = 0]
    /\ UNCHANGED <<store, uidList, socketOpen, closing, written, outsideFetch>>

\* a loop that looks at the socket first
MutAborted(shuttingDown, open) ==
    IF ~open THEN "socket" ELSE IF shuttingDown THEN "shutdown" ELSE "none"

\* Lines 1123-1129: server._closeTimeout throws ServerShutdownError; after
\* it, a socket that is missing, destroyed or not open throws SocketError.
Aborted(shuttingDown, open) ==
    IF shuttingDown THEN "shutdown" ELSE IF ~open THEN "socket" ELSE "none"

\* Lines 1110-1286: one turn of the row loop; `converts` says whether
\* convertResult gives a message.
Row(converts) ==
    /\ fetch.pc = "rows"
    /\ LET row == fetch.rows[fetch.idx]
           met == [fetch EXCEPT !.count = @ + 1, !.lastUid = row.uid,
                                !.reached = @ \cup {row.uid}]
           seen == MarkAsSeen(fetch.options, row)
           answered == [met EXCEPT !.rowCount = @ + 1,
                                   !.totalBytes = @ + CompiledLength(row.uid)]
           queued == IF ~seen
                     THEN [answered EXCEPT !.bulkWrite = Append(@, row.uid),
                                           !.queued = Append(@, row.uid)]
                     ELSE [answered EXCEPT !.marked = @ \cup {row.uid}]
           abort == Aborted(closing, socketOpen)
       IN  IF abort # "none"
           THEN fetch' = Thrown(fetch, abort) /\ UNCHANGED written
           ELSE IF ~converts
           THEN /\ fetch' = IF fetch.count = PageSize
                            THEN Resumed(fetch)
                            ELSE Returning(fetch, "absent")
                /\ UNCHANGED written
           ELSE IF met.queryAll /\ ~InSnapshot(row.uid, uidList)
           THEN fetch' = NextRow(met) /\ UNCHANGED written
           ELSE /\ written' = Append(written, row.uid)
                /\ fetch' = IF fetch.options.metadataOnly /\ ~seen
                            THEN NextRow(answered)
                            ELSE IF AtThreshold(Len(queued.bulkWrite))
                            THEN [queued EXCEPT !.pc = "flush"]
                            ELSE NextRow(queued)
    /\ UNCHANGED <<store, uidList, socketOpen, closing, outsideFetch>>

\* Lines 1297-1305 and 1395-1402: the queued entries are passed to
\* addEntries and fire(alias.id) is called.
Notified(f) ==
    [f EXCEPT !.passed = @ \o f.entries, !.entries = <<>>, !.fired = @ + 1]

\* Lines 1286-1318: the queued updates are written. No line of getMessages
\* adds to entries, so the addEntries call of lines 1294-1309 has nothing
\* to pass on.
Flush(ok) ==
    /\ fetch.pc = "flush"
    /\ LET called == [fetch EXCEPT !.batches = Append(@, fetch.bulkWrite),
                                   !.bulkWrite = <<>>]
       IN  IF ok
           THEN /\ store' = BulkWritten(store, fetch.bulkWrite)
                /\ fetch' = NextRow(IF AtThreshold(Len(fetch.entries))
                                    THEN Notified(called) ELSE called)
           ELSE /\ store' = store
                /\ fetch' = Returning([called EXCEPT !.entries = <<>>,
                                                     !.successful = FALSE],
                                      "failed")
    /\ UNCHANGED <<uidList, socketOpen, closing, written, outsideFetch>>

\* Lines 1383-1420: onFetch writes what is still queued and answers.
Respond(ok) ==
    /\ fetch.pc = "return"
    /\ LET called == IF fetch.bulkWrite # <<>>
                     THEN [fetch EXCEPT !.batches = Append(@, fetch.bulkWrite)]
                     ELSE fetch
           flushed == [called EXCEPT !.bulkWrite = <<>>]
       IN  IF fetch.bulkWrite # <<>> /\ ~ok
           THEN /\ store' = store
                /\ fetch' = [Thrown(called, "store") EXCEPT
                                !.ended = fetch.ended]
           ELSE /\ store' = BulkWritten(store, fetch.bulkWrite)
                /\ fetch' = [(IF fetch.entries # <<>>
                              THEN Notified(flushed) ELSE flushed)
                                EXCEPT !.pc = "done",
                                       !.response = "completed"]
    /\ UNCHANGED <<uidList, socketOpen, closing, written, outsideFetch>>

\* ------------------------------------------------ what others do meanwhile
\* (before the command, and while getMessages runs)
\* The mailbox gains or loses a message after the command's first query.
Disturbed(f) == IF f.passes > 0 THEN [f EXCEPT !.disturbed = TRUE] ELSE f

\* Another session appends a message: it gets the next uid.
Insert ==
    /\ fetch.pc \in {"idle", "query", "rows", "flush"}
    /\ \E u \in Uids :
          /\ store[u] = "none"
          /\ \A v \in 1..(u - 1) : store[v] # "none"
          /\ store' = [store EXCEPT ![u] = "unseen"]
    /\ fetch' = Disturbed(fetch)
    /\ UNCHANGED <<uidList, socketOpen, closing, written, outsideFetch>>

\* Another session expunges a message.
Expunge(u) ==
    /\ fetch.pc \in {"idle", "query", "rows", "flush"}
    /\ Present(u)
    /\ store' = [store EXCEPT ![u] = "gone"]
    /\ fetch' = Disturbed(fetch)
    /\ UNCHANGED <<uidList, socketOpen, closing, written, outsideFetch>>

\* The client's connection goes away while getMessages runs.
SocketClose ==
    /\ fetch.pc \in {"query", "rows", "flush"}
    /\ socketOpen
    /\ socketOpen' = FALSE
    /\ UNCHANGED <<store, uidList, closing, fetch, written, outsideFetch>>

\* The server starts to shut down while getMessages runs.
BeginShutdown ==
    /\ fetch.pc \in {"query", "rows", "flush"}
    /\ ~closing
    /\ closing' = TRUE
    /\ UNCHANGED <<store, uidList, socketOpen, fetch, written, outsideFetch>>

\* ---------------------------------------------------------- FETCH: the runs
\* The session selected the mailbox when it held the messages it holds now,
\* the older of them seen.
InitFetch ==
    /\ modifyIndex = 0
    /\ initialIndex = 0
    /\ msgModseq = [m \in Msgs |-> 0]
    /\ journal = <<>>
    /\ calls = [p \in Procs |-> IdleCall]
    /\ NotifierInit(0, MaxMessages)
    /\ \E n \in 0..MaxUid, k \in 0..MaxUid :
          /\ k <= n
          /\ store = [u \in Uids |-> IF u <= k THEN "seen"
                                     ELSE IF u <= n THEN "unseen"
                                     ELSE "none"]
    /\ uidList = SortByUid({u \in Uids : Present(u)})
    /\ socketOpen = TRUE
    /\ closing = FALSE
    /\ fetch = IdleFetch
    /\ written = <<>>
    /\ ReleaseAtRest
    /\ CalDAVAtRest

NextFetch ==
    \/ \E options \in FetchOptions, exists \in BOOLEAN :
          FetchStart(options, exists)
    \/ Query
    \/ \E converts \in BOOLEAN : Row(converts)
    \/ \E ok \in BOOLEAN : Flush(ok)
    \/ \E ok \in BOOLEAN : Respond(ok)
    \/ Insert
    \/ \E u \in Uids : Expunge(u)
    \/ SocketClose
    \/ BeginShutdown

SpecFetch == InitFetch /\ [][NextFetch]_vars

\* ------------------------------------------------------------ FETCH: claims
\* C24: a turn of the row loop taken while the server shuts down ends the
\* FETCH with the shutdown abort, and one taken with the socket not open
\* (and no shutdown) ends it with the socket abort, in both cases with
\* nothing written for the row; once aborted, no response is written.
C24_AbortBeforeWriting ==
    /\ [][(fetch.pc = "rows"
             /\ (fetch'.pc # "rows" \/ fetch'.idx # fetch.idx))
            => /\ closing
                   => (fetch'.pc = "done" /\ fetch'.error = "shutdown"
                           /\ written' = written)
               /\ (~closing /\ ~socketOpen)
                   => (fetch'.pc = "done" /\ fetch'.error = "socket"
                           /\ written' = written)]_vars
    /\ [][fetch.error \in {"shutdown", "socket"}
            => (written' = written /\ fetch'.pc = "done"
                    /\ fetch'.error = fetch.error)]_vars

\* Rows were answered, then the socket closed and the shutdown began before
\* the next row: the FETCH ended with the shutdown abort and rows unanswered.
C24_Witness ==
    /\ fetch.pc = "done"
    /\ fetch.error = "shutdown"
    /\ ~socketOpen
    /\ written # <<>>
    /\ Len(written) < Len(uidList)

\* C25: a full-range FETCH of an undisturbed mailbox, one of whose threshold
\* bulkWrite calls failed, has all the same written a response for every
\* message of the mailbox and reports successful = false.
C25_FlushFailureKeepsReading ==
    (/\ fetch.pc = "done"
     /\ fetch.ended = "failed"
     /\ fetch.queryAll
     /\ fetch.options.changedSince = 0
     /\ ~fetch.disturbed)
    => /\ ~fetch.successful
       /\ Range(written) = Range(uidList)

\* C26: a FETCH queues an update that adds \Seen only for a message it
\* answered with markAsSeen asked for and \Seen not among its flags, and no
\* step of the FETCH turns any other unseen message into a seen one.
C26_OnlyMarkedMessagesUpdated ==
    /\ [](Range(fetch.queued) \subseteq fetch.marked)
    /\ [][\A u \in Uids :
              (store[u] = "unseen" /\ store'[u] = "seen")
              => u \in fetch.marked]_vars

\* C23: a FETCH whose mailbox is not found answers NONEXISTENT at once, and
\* has written no response, submitted no store update, passed no journal
\* entry and fired no notification; the step that finds no mailbox leaves
\* the store, the journal and the notifier as they were.
C23_NonExistentWritesNothing ==
    /\ []((fetch.pc # "idle" /\ ~fetch.mailbox)
           => /\ fetch.pc = "done"
              /\ fetch.response = "NONEXISTENT"
              /\ written = <<>>
              /\ fetch.batches = <<>> /\ fetch.queued = <<>>
              /\ fetch.passed = <<>>
              /\ fetch.fired = 0
              /\ fetch.rowCount = 0)
    /\ [][~fetch'.mailbox
            => (store' = store /\ journal' = journal
                    /\ modifyIndex' = modifyIndex
                    /\ fires' = fires /\ immediates' = immediates
                    /\ channel' = channel)]_vars

\* A FETCH that asked to mark unseen messages found no mailbox.
C23_Witness ==
    /\ fetch.pc = "done"
    /\ ~fetch.mailbox
    /\ fetch.options.markAsSeen
    /\ \E u \in Uids : store[u] = "unseen"
\* C9 as claimed: a full-range FETCH (without CHANGEDSINCE) that has
\* answered with success has written a response for exactly the uids of the
\* session's uidList, whatever happened to the store meanwhile.
C9_ExactlyTheSnapshot ==
    (/\ fetch.pc = "done"
     /\ fetch.response = "completed"
     /\ fetch.successful
     /\ fetch.queryAll
     /\ fetch.options.changedSince = 0)
    => Range(written) = Range(uidList)

\* C9 as amended: a full-range FETCH writes responses only for uids of the
\* session's uidList, none for a message that arrived later, and exactly one
\* for every uid of uidList whose row its query returned and its row loop
\* came to.
C9_OnlyTheSnapshot ==
    fetch.queryAll =>
        /\ Range(written) \subseteq Range(uidList)
        /\ \A u \in fetch.reached \cap Range(uidList) :
              Cardinality({i \in 1..Len(written) : written[i] = u}) = 1

\* A full-range FETCH has come to the row of a message that arrived after the
\* snapshot, and has answered.
C9_Witness ==
    /\ fetch.pc = "done"
    /\ fetch.response = "completed"
    /\ fetch.queryAll
    /\ written # <<>>
    /\ \E u \in fetch.reached : u \notin Range(uidList)

\* C10: the uids of the responses of one FETCH are written in strictly
\* ascending order, those of a resumed pass included.
C10_AscendingUids ==
    \A i \in 1..Len(written), j \in 1..Len(written) :
        i < j => written[i] < written[j]

\* A pass resumed after a full page has written a response of its own.
C10_Witness ==
    /\ fetch.passes > 1
    /\ Len(written) > PageSize

\* What one pass over the store as it is, with every row read, would answer:
\* the messages the command asks for, those of uidList if it asks for all.
SinglePass ==
    SortByUid({u \in Uids :
        /\ Present(u)
        /\ (fetch.options.changedSince # 0)
              => (ModseqOf(u) > fetch.options.changedSince)
        /\ IF Len(fetch.options.messages) = Len(uidList)
           THEN u \in Range(uidList)
           ELSE u \in Range(fetch.options.messages)})

\* C11: a pass that finds a row absent after exactly PageSize rows is followed
\* by a pass over the rows with uid > lastUid only, and when that pass has
\* gone through its rows and the mailbox has neither gained nor lost a
\* message meanwhile, the responses written are those of a single pass over
\* the store, in the same order: none twice, none missing.
C11_ResumeMatchesSinglePass ==
    /\ (fetch.passes > 1 /\ fetch.pc = "rows")
          => \A j \in fetch.idx..Len(fetch.rows) :
                fetch.rows[j].uid > fetch.lastUid
    /\ (/\ fetch.pc = "done"
        /\ fetch.response = "completed"
        /\ fetch.passes > 1
        /\ fetch.ended = "rows"
        /\ ~fetch.disturbed)
          => written = SinglePass

\* A resumed FETCH has gone through its rows, with responses of both passes.
C11_Witness ==
    /\ fetch.pc = "done"
    /\ fetch.response = "completed"
    /\ fetch.passes > 1
    /\ fetch.ended = "rows"
    /\ ~fetch.disturbed
    /\ Len(written) > PageSize
    /\ written = SinglePass

\* the operations of a sequence of bulkWrite calls, in order
RECURSIVE Flatten(_)
Flatten(bs) == IF bs = <<>> THEN <<>> ELSE Head(bs) \o Flatten(Tail(bs))

\* C12: when a FETCH that was not aborted ends, the n updates it queued have
\* been handed to the store in ceil(n / BulkSize) bulkWrite calls, each but
\* the last of exactly BulkSize operations and the last of the remainder,
\* every queued operation in exactly one call.
C12_BatchedUpdates ==
    (fetch.pc = "done" /\ fetch.error \notin {"shutdown", "socket"}) =>
        LET n == Len(fetch.queued)
            k == Len(fetch.batches)
        IN  /\ Flatten(fetch.batches) = fetch.queued
            /\ k = (n + BulkSize - 1) \div BulkSize
            /\ \A i \in 1..(k - 1) : Len(fetch.batches[i]) = BulkSize
            /\ k > 0 => Len(fetch.batches[k]) = n - (k - 1) * BulkSize

\* A FETCH has ended after a full batch and a last, partial one.
C12_Witness ==
    /\ fetch.pc = "done"
    /\ fetch.response = "completed"
    /\ Len(fetch.batches) > 1
    /\ Len(fetch.batches[Len(fetch.batches)]) < BulkSize

\* C13: when a FETCH reports its result, an update that adds \Seen has been
\* handed to the store for every message it answered with markAsSeen asked
\* for and \Seen not among the message's flags.
C13_SeenUpdateSubmitted ==
    (fetch.pc = "done" /\ fetch.response = "completed")
    => \A u \in fetch.marked : u \in Range(Flatten(fetch.batches))

\* C14: when a FETCH has answered, an entry for every message it wrote a
\* response for has been passed to addEntries, and fire was called after.
C14_EntriesPassedAndFired ==
    (fetch.pc = "done" /\ fetch.response = "completed")
    => /\ Len(fetch.passed) >= Len(written)
       /\ written # <<>> => fetch.fired > 0

\* C15: a FETCH one of whose bulkWrite calls failed, be it the call made at
\* the threshold or the last one made by onFetch, ends with fn called
\* without an error and with successful = false.
C15_FlushFailureNotAnError ==
    (fetch.pc = "done" /\ (fetch.ended = "failed" \/ fetch.error = "store"))
    => (fetch.response = "completed" /\ ~fetch.successful)

\* C16: when a FETCH ends, however its row loop ended, every update it
\* queued has been handed to the store in a bulkWrite call.
C16_QueuedUpdatesSubmitted ==
    fetch.pc = "done"
    => Range(fetch.queued) \subseteq Range(Flatten(fetch.batches))

\* ===================================================== releaseConnection
\* calls of releaseConnection for the session, and connections counted
MaxReleases == 2
MaxConnections == 3

\* every session passes for an authenticated one
MutAuthenticated(sess) == TRUE

\* data?.session?.user?.alias_id
Authenticated(sess) == sess.auth

\* typeof data?.session?.db?.close === 'function': so it is of a handle that
\* was closed, too
HasClose(db) == db # "none"

\* Lines 322-323: the statement of the try that throws. close() is reached
\* only when pragma('optimize') has returned.
Failing(db, optimizeFails, closeFails) ==
    IF db = "closed" \/ optimizeFails THEN "optimize"
    ELSE IF closeFails THEN "close"
    ELSE "none"

\* optimize and close with no try around them
MutCloseDb(db, optimizeFails, closeFails) ==
    IF db = "closed" \/ optimizeFails \/ closeFails
    THEN [db |-> db, logged |-> FALSE, raised |-> TRUE,
          failed |-> Failing(db, optimizeFails, closeFails)]
    ELSE [db |-> "closed", logged |-> FALSE, raised |-> FALSE,
          failed |-> "none"]

\* Lines 321-326: pragma('optimize'), which throws on a closed handle, then
\* close(); what is thrown is logged.
CloseDb(db, optimizeFails, closeFails) ==
    IF db = "closed" \/ optimizeFails \/ closeFails
    THEN [db |-> db, logged |-> TRUE, raised |-> FALSE,
          failed |-> Failing(db, optimizeFails, closeFails)]
    ELSE [db |-> "closed", logged |-> FALSE, raised |-> FALSE,
          failed |-> "none"]

\* Lines 315-343: releaseConnection(data, fn).
ReleaseConnection(optimizeFails, closeFails) ==
    /\ release.calls < MaxReleases
    /\ IF ~Authenticated(session)
       THEN /\ release' = [release EXCEPT !.calls = @ + 1, !.reports = @ + 1]
            /\ UNCHANGED <<session, pipelines>>
       ELSE LET r == IF HasClose(session.db)
                     THEN CloseDb(session.db, optimizeFails, closeFails)
                     ELSE [db |-> session.db, logged |-> FALSE,
                           raised |-> FALSE, failed |-> "none"]
                tried == [release EXCEPT
                            !.calls = @ + 1,
                            !.optimized = IF HasClose(session.db)
                                          THEN @ + 1 ELSE @,
                            !.logged = IF r.logged THEN @ + 1 ELSE @,
                            !.failed = r.failed]
            IN  /\ session' = [session EXCEPT !.db = r.db]
                /\ IF r.raised
                   THEN /\ release' = [tried EXCEPT !.raised = TRUE]
                        /\ UNCHANGED pipelines
                   ELSE /\ release' = [tried EXCEPT !.reports = @ + 1]
                        /\ pipelines' = pipelines + 1
    /\ UNCHANGED <<connections, outsideRelease>>

\* Lines 331-340: Redis executes a pipeline (decr and pexpire of both keys),
\* or the promise of exec() rejects and the rejection is logged.
PipelineExec(ok) ==
    /\ pipelines > 0
    /\ pipelines' = pipelines - 1
    /\ IF ok
       THEN /\ connections' = [alias |-> connections.alias - 1,
                               domain |-> connections.domain - 1]
            /\ release' = [release EXCEPT !.executed = @ + 1]
       ELSE /\ connections' = connections
            /\ release' = [release EXCEPT !.logged = @ + 1]
    /\ UNCHANGED <<session, outsideRelease>>

\* A session, authenticated or not, with a store handle or none, and the
\* connections counted for its alias and its domain.
InitRelease ==
    /\ modifyIndex = 0
    /\ initialIndex = 0
    /\ msgModseq = [m \in Msgs |-> 0]
    /\ journal = <<>>
    /\ calls = [p \in Procs |-> IdleCall]
    /\ NotifierInit(0, MaxMessages)
    /\ FetchAtRest
    /\ \E auth \in BOOLEAN, db \in {"none", "open"},
          a \in 1..MaxConnections, d \in 1..MaxConnections :
          /\ a <= d
          /\ session = [auth |-> auth, db |-> db]
          /\ connections = [alias |-> a, domain |-> d]
          /\ release = [NoRelease EXCEPT
                          !.initial = [db |-> db, alias |-> a, domain |-> d]]
    /\ pipelines = 0
    /\ CalDAVAtRest

NextRelease ==
    \/ \E optimizeFails \in BOOLEAN, closeFails \in BOOLEAN :
          ReleaseConnection(optimizeFails, closeFails)
    \/ \E ok \in BOOLEAN : PipelineExec(ok)

SpecRelease == InitRelease /\ [][NextRelease]_vars

\* ------------------------------------------------ releaseConnection: claims
\* C17: no call of releaseConnection raises, and each calls fn(null, true)
\* once, whatever the session's state and whatever fails.
C17_NeverRaisesReportsOnce ==
    /\ ~release.raised
    /\ release.reports = release.calls

\* A second call for an authenticated session found the handle closed, and a
\* pipeline failed.
C17_Witness ==
    /\ session.auth
    /\ session.db = "closed"
    /\ release.calls > 1
    /\ release.reports = release.calls
    /\ release.logged > 1
    /\ release.executed < release.calls
    /\ pipelines = 0

\* C18: after two or more calls for an authenticated session, all pipelines
\* executed, the counters are what one call makes them.
C18_SecondCallChangesNothing ==
    (/\ Authenticated(session)
     /\ release.calls > 1
     /\ pipelines = 0
     /\ release.executed = release.calls)
    => /\ connections.alias = release.initial.alias - 1
       /\ connections.domain = release.initial.domain - 1

\* C33: a call of releaseConnection for an authenticated session whose
\* store handle is open leaves the handle closed, unless close() itself
\* throws: also, that is, when pragma('optimize') throws.
C33_HandleClosedAfterRelease ==
    [][(/\ release'.calls > release.calls
        /\ Authenticated(session)
        /\ session.db = "open"
        /\ release'.failed # "close")
       => session'.db = "closed"]_vars

\* C19: calls for a session that never authenticated leave the store handle
\* and the counters as they were, optimize nothing, hand no pipeline to
\* Redis, and each reports success.
C19_UnauthenticatedNoOp ==
    (~session.auth /\ release.calls > 0)
    => /\ session.db = release.initial.db
       /\ connections.alias = release.initial.alias
       /\ connections.domain = release.initial.domain
       /\ release.optimized = 0
       /\ release.executed = 0
       /\ pipelines = 0
       /\ release.reports = release.calls

\* releaseConnection was called for an unauthenticated session that has a
\* store handle.
C19_Witness ==
    /\ ~session.auth
    /\ release.initial.db = "open"
    /\ release.calls > 0
    /\ release.reports = release.calls

\* ================================================================ CalDAV
\* createEvent, updateEvent and deleteEvent on one calendar; each caller
\* makes one request. Every await is the end of a step.
\* the synctoken's number in the initial state is 1..MaxInitToken
MaxInitToken == 2

Ops == {"createEvent", "updateEvent", "deleteEvent"}

\* Lines 182-189: the part after the last "/" is parsed, one is added, and
\* it is put back after the "/".
BumpSyncToken(synctoken) ==
    SyncToken(synctoken.prefix, synctoken.suffix + 1)

\* Lines 525, 666, 732: await this.getCalendar(...); the document read stays
\* in `calendar` for the rest of the request.
GetCalendar(p, op, eventId) ==
    /\ requests[p].pc = "idle"
    /\ requests' = [requests EXCEPT ![p] =
          [NoRequest EXCEPT !.pc = "findOne", !.op = op, !.eventId = eventId,
                            !.synctoken = calendar.synctoken]]
    /\ UNCHANGED <<calendar, outsideCalDAV>>

\* Lines 528-534, 668-674, 734-739: await CalendarEvents.findOne({ eventId,
\* calendar }) and the check of what it found.
FindEvent(p) ==
    /\ requests[p].pc = "findOne"
    /\ LET r == requests[p]
           exists == calendar.events[r.eventId] > 0
       IN  requests' = [requests EXCEPT ![p] =
             IF r.op = "createEvent"
             THEN IF exists
                  THEN [r EXCEPT !.pc = "rejected",
                                 !.error = "EVENT_ALREADY_EXISTS"]
                  ELSE [r EXCEPT !.pc = "bump"]
             ELSE IF r.op = "updateEvent"
             THEN IF ~exists
                  THEN [r EXCEPT !.pc = "rejected",
                                 !.error = "EVENT_DOES_NOT_EXIST"]
                  ELSE [r EXCEPT !.pc = "bump"]
             ELSE IF exists THEN [r EXCEPT !.pc = "bump"]
                  ELSE [r EXCEPT !.pc = "done"]]
    /\ UNCHANGED <<calendar, outsideCalDAV>>

\* Lines 536-545, 676-685, 741-750: await Calendars.findByIdAndUpdate(...,
\* { $set: { synctoken: bumpSyncToken(calendar.synctoken) } }), with the
\* synctoken of the document getCalendar returned.
SetSyncToken(p) ==
    /\ requests[p].pc = "bump"
    /\ calendar' = [calendar EXCEPT
                      !.synctoken = BumpSyncToken(requests[p].synctoken)]
    /\ requests' = [requests EXCEPT ![p].pc = "write"]
    /\ UNCHANGED outsideCalDAV

\* Lines 651-654: return CalendarEvents.create(calendarEvent). A store with
\* a unique index on the calendar and eventId rejects a second document;
\* the create may also fail otherwise (ok = FALSE).
CreateEvent(p, ok) ==
    /\ requests[p].pc = "write"
    /\ requests[p].op = "createEvent"
    /\ LET r == requests[p]
           duplicate == calendar.unique /\ calendar.events[r.eventId] > 0
       IN  IF duplicate \/ ~ok
           THEN /\ requests' = [requests EXCEPT ![p] =
                      [r EXCEPT !.pc = "rejected",
                                !.error = IF duplicate THEN "DuplicateKey"
                                          ELSE "StoreError"]]
                /\ UNCHANGED calendar
           ELSE /\ requests' = [requests EXCEPT ![p] =
                      [r EXCEPT !.pc = "done", !.mutated = TRUE]]
                /\ calendar' = [calendar EXCEPT !.events[r.eventId] = @ + 1]
    /\ UNCHANGED outsideCalDAV

\* Lines 687-722: the fields are set and e = await e.save().
SaveEvent(p, ok) ==
    /\ requests[p].pc = "write"
    /\ requests[p].op = "updateEvent"
    /\ requests' = [requests EXCEPT ![p] =
          IF ok THEN [requests[p] EXCEPT !.pc = "done", !.mutated = TRUE]
          ELSE [requests[p] EXCEPT !.pc = "rejected", !.error = "StoreError"]]
    /\ UNCHANGED <<calendar, outsideCalDAV>>

\* Lines 752-757: await CalendarEvents.deleteOne({ _id: event._id }); the
\* event found is returned.
DeleteEvent(p) ==
    /\ requests[p].pc = "write"
    /\ requests[p].op = "deleteEvent"
    /\ calendar' = [calendar EXCEPT !.events[requests[p].eventId] =
                                        IF @ > 0 THEN @ - 1 ELSE 0]
    /\ requests' = [requests EXCEPT ![p].pc = "done", ![p].mutated = TRUE]
    /\ UNCHANGED outsideCalDAV

\* A calendar with some events, its synctoken at some number, in a store
\* that has a unique index on CalendarEvents or has none.
InitCalDAV ==
    /\ modifyIndex = 0
    /\ initialIndex = 0
    /\ msgModseq = [m \in Msgs |-> 0]
    /\ journal = <<>>
    /\ calls = [p \in Procs |-> IdleCall]
    /\ NotifierInit(0, MaxMessages)
    /\ FetchAtRest
    /\ ReleaseAtRest
    /\ \E n \in 1..MaxInitToken, held \in SUBSET EventIds, u \in BOOLEAN :
          calendar = [synctoken |-> SyncToken("ns/sync-token", n),
                      initial |-> n,
                      events |-> [e \in EventIds |->
                                    IF e \in held THEN 1 ELSE 0],
                      unique |-> u]
    /\ requests = [p \in Procs |-> NoRequest]

NextCalDAV ==
    \/ \E p \in Procs, op \in Ops, eventId \in EventIds :
          \* callers are interchangeable: they are numbered as they start
          /\ \A q \in 1..(p - 1) : requests[q].pc # "idle"
          /\ GetCalendar(p, op, eventId)
    \/ \E p \in Procs : FindEvent(p)
    \/ \E p \in Procs : SetSyncToken(p)
    \/ \E p \in Procs, ok \in BOOLEAN : CreateEvent(p, ok)
    \/ \E p \in Procs, ok \in BOOLEAN : SaveEvent(p, ok)
    \/ \E p \in Procs : DeleteEvent(p)

SpecCalDAV == InitCalDAV /\ [][NextCalDAV]_vars

\* ---------------------------------------------------------- CalDAV: claims
\* the requests that have ended with their event created, saved or deleted
Succeeded == {p \in Procs : requests[p].pc = "done" /\ requests[p].mutated}

AtRest(p) == requests[p].pc \in {"idle", "done", "rejected"}

\* C36: when no request is under way, the number of the calendar's synctoken
\* is its initial value plus the number of createEvent, updateEvent and
\* deleteEvent requests that succeeded, whatever the interleaving of their
\* store accesses: rejected requests and deletions of no event add nothing.
C36_SyncTokenCountsMutations ==
    (\A p \in Procs : AtRest(p))
    => calendar.synctoken.suffix = calendar.initial + Cardinality(Succeeded)

\* C37: the calendar never holds two events with the same eventId, and a
\* createEvent for an eventId the calendar holds is rejected with
\* EVENT_ALREADY_EXISTS and with nothing else, whatever the interleaving.
C37_OneEventPerEventId ==
    /\ \A e \in EventIds : calendar.events[e] <= 1
    /\ \A p \in Procs : requests[p].error # "DuplicateKey"

====
